---- MODULE Spec2Model ----
(***************************************************************************)
(* Segmentation-and-packaging pipeline of psychotherapy_lab: the audio     *)
(* service (models.py, file_handler.py, audio_processor.py) and the video  *)
(* processor (video_processor.py).                                         *)
(*                                                                         *)
(* Times are integers in milliseconds.  Paths are tuples of components     *)
(* below the batch's temporary directory.  A file is a record of its path  *)
(* and of the slice of media written to it.                                *)
(***************************************************************************)
EXTENDS Integers, Sequences, FiniteSets, TLC

\* ------------------------------------------------------------------ bounds
\* Longest diarization table drawn as input.
MaxRows == 2

\* Most calls made on one service instance.
MaxCalls == 2
\* Most calls of cleanup the owner makes during the history of one call.
MaxCleanups == 2

\* Start and end values of the input rows, in milliseconds.  No value ends in
\* 5, so formatting to two decimals never meets a rounding tie.
Times == {-4, 0, 4, 10}
\* Speaker labels of the input rows.
Speakers == {"patient", "therapist"}
\* Durations of the media file, in milliseconds.
Durations == {4, 10}

\* ------------------------------------------------------------- data model
required_columns == <<"start", "end", "speaker">>

\* The rows a CSV with columns `cols` can hold: records over those columns.
RowsOver(cols) ==
    {[c \in cols |-> r[c]] : r \in [start : Times, end : Times, speaker : Speakers]}

\* A parsed CSV: the columns it has among the required ones, and its rows,
\* each a record over exactly those columns.
IsTable(t) ==
    \E cols \in SUBSET {"start", "end", "speaker"} :
        \E n \in 0..MaxRows :
            \E rs \in [1..n -> RowsOver(cols)] :
                t = [columns |-> cols, rows |-> rs]

Abs(x) == IF x < 0 THEN -x ELSE x

\* f"{x:.2f}" of a time given in milliseconds: the sign that is printed and
\* the hundredths, rounded to nearest ("-0.004" prints as "-0.00").
Fmt2(ms) == [neg |-> ms < 0, centi |-> (Abs(ms) + 5) \div 10]

\* AudioSegment.__post_init__: segment_id = f"{start:.2f}_{end:.2f}"
segment_id(start_time, end_time) == <<Fmt2(start_time), Fmt2(end_time)>>

\* DiarizationData.total_segments
total_segments(t) == Len(t.rows)

RECURSIVE Unique(_, _)
Unique(s, seen) ==
    IF s = <<>> THEN <<>>
    ELSE IF Head(s) \in seen THEN Unique(Tail(s), seen)
    ELSE <<Head(s)>> \o Unique(Tail(s), seen \cup {Head(s)})

\* The labels in the reverse of the order of first appearance.
unique_speakers_reversed(t) ==
    LET u == Unique([i \in 1..Len(t.rows) |-> t.rows[i].speaker], {})
    IN  [i \in 1..Len(u) |-> u[Len(u) + 1 - i]]

\* DiarizationData.unique_speakers: dataframe['speaker'].unique().tolist(),
\* the labels in order of first appearance.
unique_speakers(t) == Unique([i \in 1..Len(t.rows) |-> t.rows[i].speaker], {})

Range(s) == {s[i] : i \in 1..Len(s)}

\* ------------------------------------------------------------- validation
MsgMissing(cols) == <<"Missing required columns", cols>>
MsgEmpty == <<"CSV file is empty", <<>>>>
MsgNegative == <<"Found negative time values", <<>>>>
MsgRange == <<"Found segments where end time <= start time", <<>>>>

AnyNegative(t, c) == \E i \in 1..Len(t.rows) : t.rows[i][c] < 0
AnyBadRange(t) == \E i \in 1..Len(t.rows) : t.rows[i].end <= t.rows[i].start

missing_columns(t) == SelectSeq(required_columns, LAMBDA c : c \notin t.columns)

\* The negative-time check of validate: None when it passes, a message when
\* it fails, a KeyError when it reads a column the table does not have.
\* `(df['start'] < 0).any() or (df['end'] < 0).any()` reads 'end' only when
\* no start is negative.
NegativeCheck(t) ==
    IF "start" \notin t.columns THEN [raised |-> "KeyError", errors |-> <<>>]
    ELSE IF AnyNegative(t, "start") THEN [raised |-> "none", errors |-> <<MsgNegative>>]
    ELSE IF "end" \notin t.columns THEN [raised |-> "KeyError", errors |-> <<>>]
    ELSE IF AnyNegative(t, "end") THEN [raised |-> "none", errors |-> <<MsgNegative>>]
    ELSE [raised |-> "none", errors |-> <<>>]

RangeCheck(t) ==
    IF "end" \notin t.columns \/ "start" \notin t.columns
    THEN [raised |-> "KeyError", errors |-> <<>>]
    ELSE IF AnyBadRange(t) THEN [raised |-> "none", errors |-> <<MsgRange>>]
    ELSE [raised |-> "none", errors |-> <<>>]

\* validate as it would be if every failing check returned at once.
validate_short_circuit(t) ==
    LET missing == missing_columns(t)
    IN  IF missing # <<>> THEN [raised |-> "none", errors |-> <<MsgMissing(missing)>>]
        ELSE IF t.rows = <<>> THEN [raised |-> "none", errors |-> <<MsgEmpty>>]
        ELSE IF NegativeCheck(t).errors # <<>> THEN NegativeCheck(t)
        ELSE RangeCheck(t)

\* DiarizationData.validate: the list of error messages it returns, or the
\* exception it raises.
validate(t) ==
    LET missing == missing_columns(t)
        e1 == IF missing # <<>> THEN <<MsgMissing(missing)>> ELSE <<>>
    IN  IF t.rows = <<>>
        THEN [raised |-> "none", errors |-> e1 \o <<MsgEmpty>>]
        ELSE LET n == NegativeCheck(t) IN
             IF n.raised # "none" THEN [raised |-> n.raised, errors |-> <<>>]
             ELSE LET r == RangeCheck(t) IN
                  IF r.raised # "none" THEN [raised |-> r.raised, errors |-> <<>>]
                  ELSE [raised |-> "none", errors |-> e1 \o n.errors \o r.errors]

\* ------------------------------------------------------------------ state
VARIABLES
    pc,                 \* position of the call in progress
    table,              \* the parsed diarization CSV (input)
    duration,           \* duration of the media file, in ms (input)
    progress_callback,  \* the caller passed a progress callback (input)
    temp_exists,        \* the temporary directory exists
    files,              \* regular files below the temporary directory
    dirs,               \* directories below the temporary directory
    media,              \* "unloaded", "open" or "closed": the decoded media
    validation_errors,  \* what validate returned
    idx,                \* 1-based index of the next row of the loop
    processed_segments, \* the loop's counter
    events,             \* history: loads, extractions, writes, callbacks
    result,             \* the value returned to the caller
    exc                 \* the exception on its way to the caller

vars == <<pc, table, duration, progress_callback, temp_exists, files, dirs, media,
          validation_errors, idx, processed_segments, events, result, exc>>

NoExc == [type |-> "none", detail |-> <<>>]
\* `returned`: the call has returned; `success`: the first component of the
\* pair process_video_file returns (TRUE for a ProcessingResult).
NoResult == [returned |-> FALSE, success |-> FALSE, total_segments |-> 0,
             processed_segments |-> 0, speakers |-> <<>>, zip_data |-> {}]

Event(op, row) == [op |-> op, row |-> row]

\* Paths below the temporary directory.
UploadPath == <<"audio.mp3">>
output_dir == <<"segments">>
zip_path == <<"segments.zip">>
SpeakerDir(speaker) == output_dir \o <<speaker>>
\* output_filename = f"segment_{segment.segment_id}.wav"
output_filename(start_time, end_time, ext) ==
    <<"segment", segment_id(start_time, end_time), ext>>
\* os.path.join(output_directory, segment.speaker, output_filename)
output_path(row, ext) ==
    SpeakerDir(row.speaker) \o <<output_filename(row.start, row.end, ext)>>

Min(a, b) == IF a < b THEN a ELSE b

\* AudioProcessor.extract_segment: the slice [start, min(end, len)) of the
\* loaded audio, named by its bounds in ms.
extract_segment(row) == <<row.start, Min(row.end, duration)>>

\* open(path, 'wb') / sf.write: the file at `path` now holds `data`, whatever
\* it held before.
WriteFile(fs, path, data) ==
    {f \in fs : f.path # path} \cup {[path |-> path, data |-> data]}

IsUnder(path, dir) ==
    /\ Len(path) > Len(dir)
    /\ SubSeq(path, 1, Len(dir)) = dir

\* os.path.relpath(file_path, source_directory)
relpath(path, dir) == SubSeq(path, Len(dir) + 1, Len(path))

\* An archive that names every entry by its file name alone.
zip_entries_flat(fs, source_directory) ==
    {[name |-> <<f.path[Len(f.path)]>>, data |-> f.data] :
        f \in {g \in fs : IsUnder(g.path, source_directory)}}

\* The entries os.walk + zipf.write put in the archive: every regular file
\* below source_directory, under its path relative to it.
zip_entries(fs, source_directory) ==
    {[name |-> relpath(f.path, source_directory), data |-> f.data] :
        f \in {g \in fs : IsUnder(g.path, source_directory)}}

\* Directories made for the first speaker only.
create_speaker_directories_first(ds, speakers) ==
    ds \cup {SpeakerDir(speakers[i]) : i \in 1..Min(1, Len(speakers))}

\* FileHandler.create_speaker_directories
create_speaker_directories(ds, speakers) ==
    ds \cup {SpeakerDir(speakers[i]) : i \in 1..Len(speakers)}

BeyondMedia_inclusive(row) == row.end >= duration

\* The early-stop test of the row loop.
BeyondMedia(row) == row.end > duration

\* ------------------------------------------- AudioProcessingService, Init
Init ==
    /\ pc = "idle"
    /\ IsTable(table)
    /\ duration \in Durations
    /\ progress_callback \in BOOLEAN
    /\ temp_exists = TRUE       \* FileHandler.__init__: tempfile.mkdtemp()
    /\ files = {}
    /\ dirs = {}
    /\ media = "unloaded"
    /\ validation_errors = <<>>
    /\ idx = 0
    /\ processed_segments = 0
    /\ events = <<>>
    /\ result = NoResult
    /\ exc = NoExc

Raise(type, detail) ==
    /\ exc' = [type |-> type, detail |-> detail]
    /\ pc' = "except"

\* A save that makes the temporary directory again when it is gone.
save_uploaded_audio_makedirs ==
    /\ pc = "idle"
    /\ temp_exists' = TRUE
    /\ files' = WriteFile(files, UploadPath, <<0, duration>>)
    /\ pc' = "saved"
    /\ UNCHANGED <<table, duration, progress_callback, dirs, media,
                   validation_errors, idx, processed_segments, events, result, exc>>

\* FileHandler.save_uploaded_audio: open(file_path, 'wb') fails when the
\* temporary directory is gone.
save_uploaded_audio ==
    /\ pc = "idle"
    /\ IF temp_exists
       THEN /\ files' = WriteFile(files, UploadPath, <<0, duration>>)
            /\ pc' = "saved"
            /\ exc' = exc
       ELSE /\ Raise("FileNotFoundError", <<>>)
            /\ files' = files
    /\ UNCHANGED <<table, duration, progress_callback, temp_exists, dirs, media, validation_errors,
                   idx, processed_segments, events, result>>

HasErrors_several(errors) == Len(errors) > 1

\* if validation_errors:
HasErrors(errors) == errors # <<>>

\* load_diarization_csv, diarization_data.validate() and the raise of
\* process_audio_with_diarization.
validate_diarization ==
    /\ pc = "saved"
    /\ events' = Append(events, Event("validate", 0))
    /\ LET v == validate(table) IN
       /\ validation_errors' = v.errors
       /\ IF v.raised # "none" THEN Raise(v.raised, <<>>)
          ELSE IF HasErrors(v.errors) THEN Raise("ValueError", v.errors)
          ELSE pc' = "validated" /\ exc' = exc
    /\ UNCHANGED <<table, duration, progress_callback, temp_exists, files, dirs, media,
                   idx, processed_segments, result>>

\* AudioProcessor.load_audio: librosa.load decodes the file or raises.
load_audio ==
    /\ pc = "validated"
    /\ events' = Append(events, Event("load_audio", 0))
    /\ \/ /\ [path |-> UploadPath, data |-> <<0, duration>>] \in files
          /\ media' = "open"
          /\ pc' = "loaded"
          /\ exc' = exc
       \/ /\ Raise("UnreadableAudio", <<>>)
          /\ media' = media
    /\ UNCHANGED <<table, duration, progress_callback, temp_exists, files, dirs, validation_errors,
                   idx, processed_segments, result>>

\* os.makedirs(output_dir), then the head of process_all_segments: the
\* speaker directories and the counters.
begin_process_all_segments ==
    /\ pc = "loaded"
    /\ IF media # "open"
       THEN /\ Raise("ValueError", <<>>)
            /\ UNCHANGED <<dirs, idx, processed_segments>>
       ELSE /\ dirs' = create_speaker_directories(dirs \cup {output_dir},
                                                  unique_speakers(table))
            /\ idx' = 1
            /\ processed_segments' = 0
            /\ pc' = "loop"
            /\ exc' = exc
    /\ UNCHANGED <<table, duration, progress_callback, temp_exists, files, media,
                   validation_errors, events, result>>

\* A result that reports every row of the table as processed.
ProcessingResult_total(t, processed) ==
    [returned |-> FALSE, success |-> FALSE, total_segments |-> total_segments(t),
     processed_segments |-> total_segments(t), speakers |-> unique_speakers(t),
     zip_data |-> {}]

\* return ProcessingResult(...)
ProcessingResult(t, processed) ==
    [returned |-> FALSE, success |-> FALSE, total_segments |-> total_segments(t),
     processed_segments |-> processed, speakers |-> unique_speakers(t),
     zip_data |-> {}]

\* A callback that is handed the count as it was before the increment.
ProgressArgs_stale(processed, total, speaker) == <<processed - 1, total, speaker>>

\* progress_callback(processed_segments, total_segments, segment.speaker)
ProgressArgs(processed, total, speaker) == <<processed, total, speaker>>

\* One iteration of the row loop of process_all_segments.
process_row ==
    /\ pc = "loop"
    /\ idx <= Len(table.rows)
    /\ LET row == table.rows[idx] IN
       IF BeyondMedia(row)
       THEN \* break
            /\ result' = ProcessingResult(table, processed_segments)
            /\ pc' = "zip"
            /\ UNCHANGED <<files, idx, processed_segments, events, exc>>
       ELSE \/ \* extract_segment, save_segment, count, progress callback
               /\ files' = WriteFile(files, output_path(row, "wav"),
                                     extract_segment(row))
               /\ processed_segments' = processed_segments + 1
               /\ events' = events \o <<Event("extract", idx), Event("write", idx)>> \o
                    (IF progress_callback
                     THEN <<Event("progress",
                                  ProgressArgs(processed_segments + 1,
                                               total_segments(table), row.speaker))>>
                     ELSE <<>>)
               /\ idx' = idx + 1
               /\ UNCHANGED <<pc, result, exc>>
            \/ \* sf.write raises
               /\ events' = Append(events, Event("extract", idx))
               /\ Raise("WriteError", <<>>)
               /\ UNCHANGED <<files, idx, processed_segments, result>>
    /\ UNCHANGED <<table, duration, progress_callback, temp_exists, dirs, media, validation_errors>>

\* The loop ran out of rows: return ProcessingResult(...)
finish_rows ==
    /\ pc = "loop"
    /\ idx > Len(table.rows)
    /\ result' = ProcessingResult(table, processed_segments)
    /\ pc' = "zip"
    /\ UNCHANGED <<table, duration, progress_callback, temp_exists, files, dirs, media,
                   validation_errors, idx, processed_segments, events, exc>>

\* FileHandler.create_zip_package and the return of the service.
create_zip_package ==
    /\ pc = "zip"
    /\ \/ /\ files' = WriteFile(files, zip_path, <<>>)
          /\ result' = [result EXCEPT !.returned = TRUE, !.success = TRUE,
                                      !.zip_data = zip_entries(files, output_dir)]
          /\ pc' = "returned"
          /\ exc' = exc
       \/ /\ Raise("ZipError", <<>>)
          /\ result' = NoResult
          /\ files' = files
    /\ UNCHANGED <<table, duration, progress_callback, temp_exists, dirs, media, validation_errors,
                   idx, processed_segments, events>>

\* A cleanup that removes nothing.
file_handler_cleanup_noop(exists, fs, ds) ==
    [exists |-> exists, files |-> fs, dirs |-> ds, raised |-> FALSE]

\* shutil.rmtree(self.temp_directory): removes the tree, or raises
\* FileNotFoundError when there is none.
rmtree(exists, fs, ds) ==
    IF exists
    THEN [exists |-> FALSE, files |-> {}, dirs |-> {}, raised |-> FALSE]
    ELSE [exists |-> FALSE, files |-> fs, dirs |-> ds, raised |-> TRUE]

\* A cleanup that calls rmtree without looking.
file_handler_cleanup_unguarded(exists, fs, ds) == rmtree(exists, fs, ds)

\* FileHandler.cleanup: shutil.rmtree when the directory exists.
file_handler_cleanup(exists, fs, ds) ==
    IF exists
    THEN rmtree(exists, fs, ds)
    ELSE [exists |-> exists, files |-> fs, dirs |-> ds, raised |-> FALSE]

\* The exception in flight after a cleanup: its own when it raised.
AfterCleanup(c, e) ==
    IF c.raised THEN [type |-> "FileNotFoundError", detail |-> <<>>] ELSE e

\* Calls of cleanup made by the owner so far in the history.
CleanupCount == Cardinality({n \in 1..Len(events) : events[n].op = "cleanup"})

\* An except clause that cleans up and returns what it has instead of
\* raising again.
except_handler_swallow ==
    /\ pc = "except"
    /\ LET c == file_handler_cleanup(temp_exists, files, dirs) IN
       /\ temp_exists' = c.exists
       /\ files' = c.files
       /\ dirs' = c.dirs
       /\ exc' = AfterCleanup(c, exc)
    /\ result' = [NoResult EXCEPT !.returned = TRUE, !.success = TRUE,
                                   !.processed_segments = processed_segments]
    /\ pc' = "returned"
    /\ UNCHANGED <<table, duration, progress_callback, media, validation_errors,
                   idx, processed_segments, events>>

\* except Exception: self.file_handler.cleanup(); raise
except_handler ==
    /\ pc = "except"
    /\ LET c == file_handler_cleanup(temp_exists, files, dirs) IN
       /\ temp_exists' = c.exists
       /\ files' = c.files
       /\ dirs' = c.dirs
       /\ exc' = AfterCleanup(c, exc)
    /\ result' = NoResult
    /\ pc' = "raised"
    /\ UNCHANGED <<table, duration, progress_callback, media, validation_errors,
                   idx, processed_segments, events>>

\* AudioProcessingService.cleanup, called by the owner of the service
\* before a call or after one has ended, any number of times.
cleanup ==
    /\ pc \in {"idle", "returned", "raised"}
    /\ CleanupCount < MaxCleanups
    /\ LET c == file_handler_cleanup(temp_exists, files, dirs) IN
       /\ temp_exists' = c.exists
       /\ files' = c.files
       /\ dirs' = c.dirs
       /\ exc' = AfterCleanup(c, exc)
    /\ events' = Append(events, Event("cleanup", 0))
    /\ UNCHANGED <<pc, table, duration, progress_callback, media, validation_errors,
                   idx, processed_segments, result>>

Next ==
    \/ save_uploaded_audio
    \/ validate_diarization
    \/ load_audio
    \/ begin_process_all_segments
    \/ process_row
    \/ finish_rows
    \/ create_zip_package
    \/ except_handler
    \/ cleanup

Spec == Init /\ [][Next]_vars

\* ------------------------------ several calls on one service instance
\* Inputs of the calls made on one instance: complete tables whose rows all
\* start at 0.
ReuseRows == [start : {0}, end : {4, 10}, speaker : Speakers]

IsReuseTable(t) ==
    /\ t.columns = {"start", "end", "speaker"}
    /\ \A i \in 1..Len(t.rows) : t.rows[i] \in ReuseRows

\* Number of the call in progress on the instance; `events` holds the
\* history of that call, headed by its number from the second call on.
CallNumber ==
    IF events # <<>> /\ events[1].op = "call" THEN events[1].row ELSE 1

\* An earlier call on the instance ended by raising.
RaisedBefore ==
    \/ pc = "raised"
    \/ \E n \in 1..Len(events) : events[n].op = "raised_before"

InitReuse ==
    /\ Init
    /\ IsReuseTable(table)

\* The owner calls process_audio_with_diarization again on the same
\* instance: file_handler, its temp_directory and audio_processor.audio_data
\* are those of the instance, the table and the upload are new.
next_call ==
    /\ pc \in {"returned", "raised"}
    /\ CallNumber < MaxCalls
    /\ \E n \in 0..MaxRows :
         \E rows \in [1..n -> ReuseRows] :
            table' = [columns |-> {"start", "end", "speaker"}, rows |-> rows]
    /\ duration' \in Durations
    /\ progress_callback' \in BOOLEAN
    /\ events' = <<Event("call", CallNumber + 1)>> \o
                 (IF RaisedBefore THEN <<Event("raised_before", 0)>> ELSE <<>>)
    /\ pc' = "idle"
    /\ validation_errors' = <<>>
    /\ idx' = 0
    /\ processed_segments' = 0
    /\ result' = NoResult
    /\ exc' = NoExc
    /\ UNCHANGED <<temp_exists, files, dirs, media>>

NextReuse == Next \/ next_call

SpecReuse == InitReuse /\ [][NextReuse]_vars

\* ------------------------------------------------------- VideoProcessor
VideoPath == <<"video.mp4">>
CsvPath == <<"diarization.csv">>

\* VideoProcessor.validate_diarization_data
validate_diarization_data(t) ==
    IF missing_columns(t) # <<>>
    THEN [ok |-> FALSE, message |-> MsgMissing(missing_columns(t))]
    ELSE IF AnyBadRange(t)
    THEN [ok |-> FALSE, message |-> <<"End time must be greater than start time", <<>>>>]
    ELSE [ok |-> TRUE, message |-> <<"Data validation successful", <<>>>>]

\* return False, None
ReturnFailure == [NoResult EXCEPT !.returned = TRUE]

InitVideo ==
    /\ pc = "v_idle"
    /\ IsTable(table)
    /\ duration \in Durations
    /\ progress_callback = TRUE
    /\ temp_exists = FALSE
    /\ files = {}
    /\ dirs = {}
    /\ media = "unloaded"       \* self.video = None
    /\ validation_errors = <<>>
    /\ idx = 0
    /\ processed_segments = 0
    /\ events = <<>>
    /\ result = NoResult
    /\ exc = NoExc

\* tempfile.TemporaryDirectory() and the two uploads written into it.
v_save_uploads ==
    /\ pc = "v_idle"
    /\ temp_exists' = TRUE
    /\ files' = WriteFile(WriteFile(files, VideoPath, <<0, duration>>), CsvPath, <<>>)
    /\ pc' = "v_load_video"
    /\ UNCHANGED <<table, duration, progress_callback, dirs, media, validation_errors, idx,
                   processed_segments, events, result, exc>>

\* if not self.load_video(video_path): return False, None
load_video ==
    /\ pc = "v_load_video"
    /\ events' = Append(events, Event("load_video", 0))
    /\ \/ /\ media' = "open"
          /\ pc' = "v_load_csv"
          /\ result' = result
       \/ /\ media' = media
          /\ result' = ReturnFailure
          /\ pc' = "v_exit"
    /\ UNCHANGED <<table, duration, progress_callback, temp_exists, files, dirs, validation_errors,
                   idx, processed_segments, exc>>

\* if not self.load_diarization_data(csv_path): return False, None
load_diarization_data ==
    /\ pc = "v_load_csv"
    /\ events' = Append(events, Event("validate", 0))
    /\ LET v == validate_diarization_data(table) IN
       IF v.ok
       THEN /\ validation_errors' = <<>>
            /\ pc' = "v_structure"
            /\ result' = result
       ELSE /\ validation_errors' = <<v.message>>
            /\ result' = ReturnFailure
            /\ pc' = "v_exit"
    /\ UNCHANGED <<table, duration, progress_callback, temp_exists, files, dirs, media,
                   idx, processed_segments, exc>>

\* VideoProcessor.create_output_structure and processed_segments = 0
create_output_structure ==
    /\ pc = "v_structure"
    /\ dirs' = create_speaker_directories(dirs \cup {output_dir}, unique_speakers(table))
    /\ idx' = 1
    /\ processed_segments' = 0
    /\ pc' = "v_loop"
    /\ UNCHANGED <<table, duration, progress_callback, temp_exists, files, media, validation_errors,
                   events, result, exc>>

\* One iteration of the row loop of process_video_file: process_segment,
\* the count, the progress callback.
v_process_row ==
    /\ pc = "v_loop"
    /\ idx <= Len(table.rows)
    /\ LET row == table.rows[idx] IN
       IF BeyondMedia(row)
       THEN \* process_segment: return False
            /\ events' = events \o <<Event("skip", idx),
                                     Event("progress", processed_segments)>>
            /\ idx' = idx + 1
            /\ UNCHANGED <<files, processed_segments>>
       ELSE \/ \* subclipped, write_videofile: return True
               /\ files' = WriteFile(files, output_path(row, "mp4"),
                                     <<row.start, row.end>>)
               /\ processed_segments' = processed_segments + 1
               /\ events' = events \o <<Event("extract", idx), Event("write", idx),
                                        Event("progress", processed_segments + 1)>>
               /\ idx' = idx + 1
            \/ \* subclipped or write_videofile raises: the except of
               \* process_segment reports it and returns False.  A write
               \* that fails may leave a truncated file behind.
               /\ \E partial \in BOOLEAN :
                    files' = IF partial
                             THEN WriteFile(files, output_path(row, "mp4"), <<row.start>>)
                             ELSE files
               /\ events' = events \o <<Event("error", idx),
                                        Event("progress", processed_segments)>>
               /\ idx' = idx + 1
               /\ UNCHANGED processed_segments
    /\ UNCHANGED <<pc, table, duration, progress_callback, temp_exists, dirs, media,
                   validation_errors, result, exc>>

\* After the loop: create_zip_archive, read the ZIP, return.
create_zip_archive ==
    /\ pc = "v_loop"
    /\ idx > Len(table.rows)
    /\ \/ /\ files' = WriteFile(files, zip_path, <<>>)
          /\ result' = [NoResult EXCEPT !.returned = TRUE, !.success = TRUE,
                                        !.zip_data = zip_entries(files, output_dir)]
          /\ events' = events
       \/ /\ files' = files
          /\ events' = Append(events, Event("zip_error", 0))
          /\ result' = ReturnFailure
    /\ pc' = "v_exit"
    /\ UNCHANGED <<table, duration, progress_callback, temp_exists, dirs, media, validation_errors,
                   idx, processed_segments, exc>>

\* The with-block of tempfile.TemporaryDirectory() is left.
v_exit_tempdir ==
    /\ pc = "v_exit"
    /\ temp_exists' = FALSE
    /\ files' = {}
    /\ dirs' = {}
    /\ pc' = "v_finally"
    /\ UNCHANGED <<table, duration, progress_callback, media, validation_errors, idx,
                   processed_segments, events, result, exc>>

\* VideoProcessor.cleanup: if self.video: self.video.close(); self.video =
\* None.  "closed" stands for a handle that was closed and dropped.
video_cleanup(m) == IF m = "open" THEN "closed" ELSE m

\* What a call of VideoProcessor.cleanup adds to the history.
CleanupEvents(m) ==
    (IF m = "open" THEN <<Event("close", 0)>> ELSE <<>>) \o <<Event("cleanup", 0)>>

\* finally: self.cleanup()
v_cleanup ==
    /\ pc = "v_finally"
    /\ media' = video_cleanup(media)
    /\ events' = events \o CleanupEvents(media)
    /\ pc' = "v_done"
    /\ UNCHANGED <<table, duration, progress_callback, temp_exists, files, dirs,
                   validation_errors, idx, processed_segments, result, exc>>

\* VideoProcessor.cleanup called by the owner of the processor, before a
\* batch or after one, any number of times.
v_owner_cleanup ==
    /\ pc \in {"v_idle", "v_done"}
    /\ CleanupCount < MaxCleanups
    /\ media' = video_cleanup(media)
    /\ events' = events \o CleanupEvents(media)
    /\ UNCHANGED <<pc, table, duration, progress_callback, temp_exists, files, dirs,
                   validation_errors, idx, processed_segments, result, exc>>

NextVideo ==
    \/ v_save_uploads
    \/ load_video
    \/ load_diarization_data
    \/ create_output_structure
    \/ v_process_row
    \/ create_zip_archive
    \/ v_exit_tempdir
    \/ v_cleanup
    \/ v_owner_cleanup

SpecVideo == InitVideo /\ [][NextVideo]_vars

\* ---------------------------------------------------- app.process_audio
\* app._validate_diarization_data: raises ValueError when a column is missing.
app_validate_ok(t) == missing_columns(t) = <<>>

InitApp ==
    /\ pc = "a_idle"
    /\ IsTable(table)
    /\ duration \in Durations
    /\ progress_callback = TRUE
    /\ temp_exists = FALSE
    /\ files = {}
    /\ dirs = {}
    /\ media = "unloaded"
    /\ validation_errors = <<>>
    /\ idx = 0
    /\ processed_segments = 0
    /\ events = <<>>
    /\ result = NoResult
    /\ exc = NoExc

\* _load_diarization_data and _validate_diarization_data, before the try.
a_validate ==
    /\ pc = "a_idle"
    /\ IF app_validate_ok(table)
       THEN /\ pc' = "a_tmp"
            /\ UNCHANGED <<validation_errors, exc>>
       ELSE /\ validation_errors' = <<MsgMissing(missing_columns(table))>>
            /\ exc' = [type |-> "ValueError",
                       detail |-> <<MsgMissing(missing_columns(table))>>]
            /\ pc' = "a_done"
    /\ UNCHANGED <<table, duration, progress_callback, temp_exists, files, dirs, media, idx,
                   processed_segments, events, result>>

\* with tempfile.TemporaryDirectory(): _save_uploaded_file
a_save_uploaded_file ==
    /\ pc = "a_tmp"
    /\ temp_exists' = TRUE
    /\ files' = WriteFile(files, UploadPath, <<0, duration>>)
    /\ pc' = "a_load"
    /\ UNCHANGED <<table, duration, progress_callback, dirs, media, validation_errors, idx,
                   processed_segments, events, result, exc>>

\* An exception inside the try: the with-block is left first.
a_Raise(type) ==
    /\ exc' = [type |-> type, detail |-> <<>>]
    /\ pc' = "a_exit_exc"

\* _load_audio_file: VideoFileClip(audio_path)
a_load_audio_file ==
    /\ pc = "a_load"
    /\ events' = Append(events, Event("load_audio", 0))
    /\ \/ /\ media' = "open"
          /\ pc' = "a_outdir"
          /\ exc' = exc
       \/ /\ media' = media
          /\ a_Raise("UnreadableAudio")
    /\ UNCHANGED <<table, duration, progress_callback, temp_exists, files, dirs, validation_errors,
                   idx, processed_segments, result>>

\* _create_output_directory, and the head of _process_audio_segments
a_create_output_directory ==
    /\ pc = "a_outdir"
    /\ dirs' = create_speaker_directories(dirs \cup {output_dir}, unique_speakers(table))
    /\ idx' = 1
    /\ processed_segments' = 0
    /\ pc' = "a_loop"
    /\ UNCHANGED <<table, duration, progress_callback, temp_exists, files, media, validation_errors,
                   events, result, exc>>

\* One iteration of the row loop of _process_audio_segments.
a_process_row ==
    /\ pc = "a_loop"
    /\ idx <= Len(table.rows)
    /\ LET row == table.rows[idx] IN
       IF BeyondMedia(row)
       THEN \* break
            /\ pc' = "a_close"
            /\ UNCHANGED <<files, idx, processed_segments, events, exc>>
       ELSE \/ \* subclipped, write_audiofile, count, progress bar
               /\ files' = WriteFile(files, output_path(row, "mp3"),
                                     <<row.start, row.end>>)
               /\ processed_segments' = processed_segments + 1
               /\ events' = events \o <<Event("extract", idx), Event("write", idx),
                                        Event("progress", processed_segments + 1)>>
               /\ idx' = idx + 1
               /\ UNCHANGED <<pc, exc>>
            \/ \* subclipped or write_audiofile raises
               /\ events' = Append(events, Event("extract", idx))
               /\ a_Raise("WriteError")
               /\ UNCHANGED <<files, idx, processed_segments>>
    /\ UNCHANGED <<table, duration, progress_callback, temp_exists, dirs, media, validation_errors,
                   result>>

\* The loop ran out of rows: return processed_segments
a_finish_rows ==
    /\ pc = "a_loop"
    /\ idx > Len(table.rows)
    /\ pc' = "a_close"
    /\ UNCHANGED <<table, duration, progress_callback, temp_exists, files, dirs, media,
                   validation_errors, idx, processed_segments, events, result, exc>>

\* audio_clip.close()
a_close ==
    /\ pc = "a_close"
    /\ media' = "closed"
    /\ pc' = "a_zip"
    /\ UNCHANGED <<table, duration, progress_callback, temp_exists, files, dirs, validation_errors,
                   idx, processed_segments, events, result, exc>>

\* _create_download_package and _display_results
a_create_download_package ==
    /\ pc = "a_zip"
    /\ \/ /\ files' = WriteFile(files, zip_path, <<>>)
          /\ result' = [returned |-> TRUE, success |-> TRUE,
                        total_segments |-> Len(table.rows),
                        processed_segments |-> processed_segments,
                        speakers |-> unique_speakers(table),
                        zip_data |-> zip_entries(files, output_dir)]
          /\ pc' = "a_exit"
          /\ exc' = exc
       \/ /\ a_Raise("ZipError")
          /\ UNCHANGED <<files, result>>
    /\ UNCHANGED <<table, duration, progress_callback, temp_exists, dirs, media, validation_errors,
                   idx, processed_segments, events>>

\* The with-block of tempfile.TemporaryDirectory() is left, normally or by
\* an exception; the exception then reaches _handle_processing_error.
a_exit_tempdir ==
    /\ pc \in {"a_exit", "a_exit_exc"}
    /\ temp_exists' = FALSE
    /\ files' = {}
    /\ dirs' = {}
    /\ pc' = "a_done"
    /\ UNCHANGED <<table, duration, progress_callback, media, validation_errors, idx,
                   processed_segments, events, result, exc>>

NextApp ==
    \/ a_validate
    \/ a_save_uploaded_file
    \/ a_load_audio_file
    \/ a_create_output_directory
    \/ a_process_row
    \/ a_finish_rows
    \/ a_close
    \/ a_create_download_package
    \/ a_exit_tempdir

SpecApp == InitApp /\ [][NextApp]_vars

\* The two audio pipelines side by side: the service and the app.
InitAudio == Init \/ InitApp
NextAudio == Next \/ NextApp
SpecAudio == InitAudio /\ [][NextAudio]_vars

\* The three pipelines side by side.
InitAll == Init \/ InitApp \/ InitVideo
NextAll == Next \/ NextApp \/ NextVideo
SpecAll == InitAll /\ [][NextAll]_vars

\* ================================================================ claims
Iota(n) == [i \in 1..n |-> i]

\* The rows, in order, of the events of kind `op`.
RowsOf(op) ==
    LET sel == SelectSeq(events, LAMBDA e : e.op = op)
    IN  [i \in 1..Len(sel) |-> sel[i].row]

AllColumns == {"start", "end", "speaker"} \subseteq table.columns

\* 1-based index of the first row whose end exceeds the duration, 0 if none.
FirstBeyond ==
    IF \E i \in 1..Len(table.rows) : table.rows[i].end > duration
    THEN CHOOSE i \in 1..Len(table.rows) :
            /\ table.rows[i].end > duration
            /\ \A j \in 1..(i - 1) : table.rows[j].end <= duration
    ELSE 0

\* The row loop of the service or of the app has ended without an exception.
LoopEnded == pc \in {"zip", "returned", "a_close", "a_zip", "a_exit"}

C2_StopsAtFirstBeyond ==
    (AllColumns /\ FirstBeyond # 0) =>
        /\ \A n \in 1..Len(events) :
              events[n].op \in {"extract", "write"} => events[n].row < FirstBeyond
        /\ processed_segments <= FirstBeyond - 1

\* Number of distinct top-level folders of an archive.
TopLevelFolders(zip) == {e.name[1] : e \in zip}

\* C3: a valid table of N rows, all within the audio, gives
\* processed_segments = N and an archive of exactly N entries under
\* len(unique_speakers) top-level folders.
C3_OneEntryPerRow ==
    (pc = "returned" /\ FirstBeyond = 0) =>
        /\ result.processed_segments = Len(table.rows)
        /\ Cardinality(result.zip_data) = Len(table.rows)
        /\ Cardinality(TopLevelFolders(result.zip_data)) = Len(result.speakers)

\* validate has run.
Validated == \E n \in 1..Len(events) : events[n].op = "validate"

\* Rank of a message in the order of the checks.
CheckRank(m) ==
    IF m[1] = "Missing required columns" THEN 1
    ELSE IF m = MsgEmpty THEN 2
    ELSE IF m = MsgNegative THEN 3
    ELSE 4

\* C4, original statement: validate reports at most one violation, the
\* earliest failing check.
C4_AtMostOneViolation == Validated => Len(validation_errors) <= 1

\* C4, amended: the checks run in the order columns, non-empty, negative
\* times, ranges; only the empty check returns early.  Every failing check
\* that ran is reported, in that order, each with its own message, so that
\* one table can report several violations; the service raises them as one
\* ValueError.  A non-empty table without a start or end column makes the
\* time checks raise KeyError instead.
C4_ChecksInOrder ==
    Validated =>
        LET errs == validation_errors
            hasTimes == {"start", "end"} \subseteq table.columns
            keyError == table.rows # <<>> /\ ~hasTimes
        IN
        /\ (exc.type = "KeyError") = keyError
        /\ keyError => errs = <<>>
        /\ ~keyError =>
              /\ \A i, j \in 1..Len(errs) :
                    i < j => CheckRank(errs[i]) < CheckRank(errs[j])
              /\ (MsgMissing(missing_columns(table)) \in Range(errs))
                    = (missing_columns(table) # <<>>)
              /\ (MsgEmpty \in Range(errs)) = (table.rows = <<>>)
              /\ (MsgNegative \in Range(errs)) =
                    (table.rows # <<>> /\
                     (AnyNegative(table, "start") \/ AnyNegative(table, "end")))
              /\ (MsgRange \in Range(errs)) =
                    (table.rows # <<>> /\ AnyBadRange(table))
              /\ errs # <<>> => exc = [type |-> "ValueError", detail |-> errs]

\* A table with a negative time and an inverted range reports both.
C4_Witness ==
    /\ pc = "raised"
    /\ validation_errors = <<MsgNegative, MsgRange>>

\* C5: a non-empty table that lacks some of the required columns is rejected
\* with the missing-columns validation error naming exactly those columns,
\* never with another kind of error.
C5_MissingColumnsRejected ==
    (Validated /\ table.rows # <<>> /\ missing_columns(table) # <<>>) =>
        /\ exc.type = "ValueError"
        /\ MsgMissing(missing_columns(table)) \in Range(exc.detail)

Ops == {events[n].op : n \in 1..Len(events)}
Paths == {f.path : f \in files}

\* C6, original statement: when the call has ended, by a return or by an
\* exception, the temporary directory has been removed.
C6_TempRemovedOnEveryExit == pc \in {"returned", "raised"} => ~temp_exists

\* C6, amended: when the call ends by raising, the temporary directory and
\* everything in it has been removed; when it returns normally the
\* directory still holds the uploaded input, the segment files and the zip,
\* until the owner calls AudioProcessingService.cleanup().
C6_TempRemovedOnError ==
    /\ pc = "raised" => (~temp_exists /\ files = {} /\ dirs = {})
    /\ (pc = "returned" /\ "cleanup" \notin Ops) =>
          /\ temp_exists
          /\ {UploadPath, zip_path} \subseteq Paths
          /\ output_dir \in dirs
          /\ \A i \in Range(RowsOf("write")) :
                output_path(table.rows[i], "wav") \in Paths
    /\ (pc = "returned" /\ "cleanup" \in Ops) =>
          (~temp_exists /\ files = {} /\ dirs = {})

\* The call has returned a result with a segment, and nothing is removed.
C6_Witness ==
    /\ pc = "returned"
    /\ result.processed_segments >= 1
    /\ temp_exists
    /\ "cleanup" \notin Ops

\* The rows whose extraction or write raised.
FailedRows == Range(RowsOf("extract")) \ Range(RowsOf("write"))

\* C7: when extracting or saving a row fails in the service, no later row
\* is processed, no result and no archive is returned, the error reaches
\* the caller, and the temporary directory is removed.
C7_RowFailureAborts ==
    FailedRows # {} =>
        /\ pc \in {"except", "raised"}
        /\ exc.type = "WriteError"
        /\ RowsOf("extract") = Iota(idx)
        /\ RowsOf("write") = Iota(idx - 1)
        /\ ~result.returned
        /\ result.zip_data = {}
        /\ pc = "raised" => (~temp_exists /\ files = {} /\ dirs = {})

\* The first of two rows failed; the second was never touched.
C7_Witness ==
    /\ pc = "raised"
    /\ FailedRows = {1}
    /\ Len(table.rows) = 2
    /\ ~BeyondMedia(table.rows[2])

\* C8: in process_video_file an error on a row aborts the remaining rows
\* and the call returns (False, None).
C8_RowErrorAborts ==
    \A n \in 1..Len(events) :
        events[n].op = "error" =>
            /\ \A m \in 1..Len(events) :
                  events[m].op \in {"extract", "write", "skip", "error"}
                      => events[m].row <= events[n].row
            /\ result.returned => (~result.success /\ result.zip_data = {})

\* C9: a table that validate rejects makes the service fail with that
\* validation error before load_audio is called and before any output
\* (segments directory, speaker directories, segment files, zip) exists.
C9_ValidationBeforeMedia ==
    validation_errors # <<>> =>
        /\ "load_audio" \notin Ops
        /\ media = "unloaded"
        /\ dirs = {}
        /\ Paths \subseteq {UploadPath}
        /\ ~result.returned
        /\ pc \in {"except", "raised"}
        /\ exc = [type |-> "ValueError", detail |-> validation_errors]

\* A table with an inverted range was rejected.
C9_Witness ==
    /\ pc = "raised"
    /\ validation_errors = <<MsgRange>>

\* C10: in process_video_file a table with a row end <= start, or without
\* a required column, is rejected before load_video is executed.
C10_RejectedBeforeOpen ==
    (missing_columns(table) # <<>> \/ AnyBadRange(table)) =>
        ("load_video" \notin Ops /\ media = "unloaded")

\* ---------------------------------------------------------------- C11
\* The archive has been written and the tree it was made from still stands.
ArchiveMade ==
    /\ pc \in {"returned", "a_exit", "v_exit"}
    /\ result.returned /\ result.success
    /\ temp_exists

\* The regular files of the tree below the output directory.
TreeFiles == {f \in files : Len(f.path) >= 2 /\ f.path[1] = "segments"}

\* C11: the archive made by create_zip_package, _create_download_package
\* and create_zip_archive holds exactly the regular files below the source
\* directory, each under its path relative to that directory: no file of
\* the tree is missing, and no entry stands for the zip file, an uploaded
\* input or a directory.
C11_ArchiveRoundTrip ==
    ArchiveMade =>
        /\ \A f \in TreeFiles :
              [name |-> Tail(f.path), data |-> f.data] \in result.zip_data
        /\ \A e \in result.zip_data :
              /\ [path |-> <<"segments">> \o e.name, data |-> e.data] \in files
              /\ e.name \notin {zip_path, UploadPath, VideoPath, CsvPath}
              /\ (<<"segments">> \o e.name) \notin dirs

\* An archive of one file made while a speaker directory is empty and the
\* zip file and the upload lie next to the tree.
C11_Witness ==
    /\ ArchiveMade
    /\ Cardinality(result.zip_data) = 1
    /\ zip_path \in Paths
    /\ \E d \in dirs : Len(d) = 2 /\ \A f \in files : ~IsUnder(f.path, d)

\* ---------------------------------------------------------------- C12
\* What a batch must produce, as a function of the table rows in order and
\* the media duration alone.
ExpectedCount == IF FirstBeyond = 0 THEN Len(table.rows) ELSE FirstBeyond - 1

ExpectedNames ==
    {<<table.rows[i].speaker,
       <<"segment", <<Fmt2(table.rows[i].start), Fmt2(table.rows[i].end)>>, "wav">>>> :
        i \in 1..ExpectedCount}

FirstRowOf(speaker) ==
    CHOOSE i \in 1..Len(table.rows) :
        /\ table.rows[i].speaker = speaker
        /\ \A j \in 1..(i - 1) : table.rows[j].speaker # speaker

IsExpectedSpeakers(s) ==
    /\ Range(s) = {table.rows[i].speaker : i \in 1..Len(table.rows)}
    /\ \A i, j \in 1..Len(s) : i < j => FirstRowOf(s[i]) < FirstRowOf(s[j])

\* C12: a batch of the service on a fresh instance returns a processed
\* count, a speaker list and a set of archive entry names that are fixed by
\* the table rows in order and the media duration, so two runs on the same
\* inputs agree on all three.
C12_ResultIsFunctionOfInputs ==
    (pc = "returned") =>
        /\ result.processed_segments = ExpectedCount
        /\ IsExpectedSpeakers(result.speakers)
        /\ {e.name : e \in result.zip_data} = ExpectedNames

\* A returned batch with two speakers, both with a file in the archive.
C12_Witness ==
    /\ pc = "returned"
    /\ Len(result.speakers) = 2
    /\ Cardinality({e.name[1] : e \in result.zip_data}) = 2

\* ---------------------------------------------------------------- C13
\* Archive names of the rows of the table of the call in progress.
OwnNames ==
    {relpath(output_path(table.rows[i], "wav"), output_dir) :
        i \in 1..Len(table.rows)}

\* C13: in any sequence of calls on one service instance, the archive a
\* call returns holds entries for rows of that call's own table only, never
\* a segment file written by an earlier call.
C13_ArchiveOfOwnRowsOnly ==
    (pc = "returned") => \A e \in result.zip_data : e.name \in OwnNames

\* ---------------------------------------------------------------- C14
\* C14: in process_audio of the app, once _load_audio_file has opened the
\* clip, the clip has been closed when the batch is over, whether it ended
\* normally or by an exception of a later step.
C14_ClipClosedOnEveryExit == (pc = "a_done") => media # "open"

\* ---------------------------------------------------------------- C15
\* C15: in process_video_file the video handle is closed before the
\* temporary directory is removed, on every exit path: there is no state in
\* which the directory of the batch has been deleted and the handle is
\* still open.
C15_ClosedBeforeTempRemoved ==
    (pc \in {"v_finally", "v_done"}) => ~(~temp_exists /\ media = "open")

\* ---------------------------------------------------------------- C16
\* The row loop of the service or of the app has been entered and the tree
\* it writes to still stands.
TreeStands ==
    /\ pc \in {"loop", "zip", "returned", "a_loop", "a_close", "a_zip", "a_exit"}
    /\ temp_exists

\* Speakers of the rows written so far.
WrittenSpeakers == {table.rows[i].speaker : i \in 1..processed_segments}

SpeakerDirsReady ==
    TreeStands =>
        /\ \A i \in 1..Len(table.rows) :
              <<"segments", table.rows[i].speaker>> \in dirs
        /\ \A f \in TreeFiles : SubSeq(f.path, 1, 2) \in dirs
        /\ \A i \in 1..Len(table.rows) :
              table.rows[i].speaker \notin WrittenSpeakers =>
                 \A f \in files : ~IsUnder(f.path, <<"segments", table.rows[i].speaker>>)

\* A step that writes a segment file finds the directory of the file.
WriteFindsDir ==
    \A f \in TreeFiles' : f \notin files => SubSeq(f.path, 1, 2) \in dirs

\* C16: in process_all_segments and in the app's loop, a directory for
\* every unique speaker of the table exists from before the first row is
\* examined; every segment write finds its speaker directory, and a speaker
\* who appears in unprocessed rows only keeps an empty directory under the
\* output root.
C16_SpeakerDirsBeforeRows == []SpeakerDirsReady /\ [][WriteFindsDir]_vars

\* An early stop after one row that leaves the other speaker's directory
\* empty.
C16_Witness ==
    /\ pc \in {"returned", "a_exit"}
    /\ temp_exists
    /\ Len(table.rows) = 2
    /\ FirstBeyond = 2
    /\ processed_segments = 1
    /\ table.rows[2].speaker # table.rows[1].speaker
    /\ <<"segments", table.rows[2].speaker>> \in dirs
    /\ Cardinality(TreeFiles) = 1

\* ---------------------------------------------------------------- C17
\* The row loop of process_all_segments has been left.
LoopLeft == pc \in {"zip", "returned", "except", "raised"}

CountersAgree ==
    /\ processed_segments = Len(RowsOf("write"))
    /\ (pc = "loop") => processed_segments <= total_segments(table)
    /\ (pc \in {"zip", "returned"}) =>
          /\ result.total_segments = Len(table.rows)
          /\ result.processed_segments = Len(RowsOf("write"))
          /\ result.processed_segments <= result.total_segments

\* C17: at every iteration of the row loop of process_all_segments the
\* counter equals the number of rows written so far and is at most the
\* total; once the loop has stopped the counter never grows again, and the
\* returned ProcessingResult carries the table's row count and the number
\* of rows written.
C17_CountersMatchWrites ==
    /\ []CountersAgree
    /\ [][LoopLeft => processed_segments' = processed_segments]_vars

\* A returned result of one processed row out of two.
C17_Witness ==
    /\ pc = "returned"
    /\ FirstBeyond = 2
    /\ result.total_segments = 2
    /\ result.processed_segments = 1
    /\ Len(RowsOf("write")) = 1

\* ---------------------------------------------------------------- C18
\* The arguments of the invocations of the progress callback, in order.
Invocations == RowsOf("progress")

CallbackAfterEachWrite ==
    /\ Len(Invocations) = Len(RowsOf("write"))
    /\ \A n \in 1..Len(events) :
          events[n].op = "progress" => n > 1 /\ events[n - 1].op = "write"
    /\ \A i \in 1..Len(Invocations) :
          /\ RowsOf("write")[i] = i
          /\ Invocations[i] = <<i, Len(table.rows), table.rows[i].speaker>>

\* C18: with a progress callback, process_all_segments invokes it once
\* after each segment write and for no other row, the i-th time with
\* (i, total_segments, speaker of the i-th row); without one nothing is
\* invoked; and the rows written and the returned result are the same in
\* both cases, fixed by the table and the duration.
C18_CallbackPerWrite ==
    /\ progress_callback => CallbackAfterEachWrite
    /\ ~progress_callback => Invocations = <<>>
    /\ (pc \in {"zip", "returned"}) =>
          /\ RowsOf("write") = Iota(ExpectedCount)
          /\ result.processed_segments = ExpectedCount
          /\ result.total_segments = Len(table.rows)
          /\ IsExpectedSpeakers(result.speakers)

\* A returned batch whose callback was invoked twice, for two speakers.
C18_Witness ==
    /\ pc = "returned"
    /\ progress_callback
    /\ Len(Invocations) = 2
    /\ Invocations[1][1] = 1 /\ Invocations[2][1] = 2
    /\ Invocations[1][3] # Invocations[2][3]

\* ---------------------------------------------------------------- C19
\* C19: once a call of process_audio_with_diarization has raised on a
\* service instance, the instance's temporary directory is gone and stays
\* gone: every later call on the instance, valid inputs included, fails
\* with the error of saving the uploaded audio, before the table is
\* validated.
C19_InstanceDeadAfterRaise ==
    /\ (pc = "raised") => ~temp_exists
    /\ ("raised_before" \in Ops) =>
          /\ ~temp_exists
          /\ pc \in {"idle", "except", "raised"}
          /\ ~Validated
          /\ "load_audio" \notin Ops
          /\ (pc # "idle") => exc.type = "FileNotFoundError"

\* A second call with a valid table that has failed in the save, on an
\* instance whose first call raised.
C19_Witness ==
    /\ "raised_before" \in Ops
    /\ CallNumber = 2
    /\ pc = "raised"
    /\ exc.type = "FileNotFoundError"
    /\ Len(table.rows) >= 1
    /\ validate(table).errors = <<>>

\* ---------------------------------------------------------------- C20
\* The step is a call of cleanup: of the service by its owner, or of the
\* video processor by its owner or by the finally clause.
CleanupCalled ==
    /\ Len(events') > Len(events)
    /\ events'[Len(events')].op = "cleanup"

ServiceCleanupSafe ==
    (CleanupCalled /\ pc \in {"idle", "returned", "raised"}) =>
        /\ ~temp_exists'
        /\ files' = {} \/ ~temp_exists
        /\ exc' = exc
        /\ pc' = pc
        /\ ~temp_exists => (files' = files /\ dirs' = dirs)

VideoCleanupSafe ==
    (CleanupCalled /\ pc \in {"v_idle", "v_finally", "v_done"}) =>
        /\ media' \in {"unloaded", "closed"}
        /\ exc' = exc
        /\ media # "open" => media' = media

ClosedAtMostOnce ==
    Cardinality({n \in 1..Len(events) : events[n].op = "close"}) <= 1

\* C20: cleanup may be called any number of times in any state.  A call of
\* FileHandler.cleanup or AudioProcessingService.cleanup, before a batch,
\* after one, or after a failed batch that cleaned up itself, raises
\* nothing and leaves the temporary directory absent; calls of
\* VideoProcessor.cleanup close the video handle at most once in all and
\* leave no handle behind.
C20_CleanupIdempotent ==
    /\ [][ServiceCleanupSafe /\ VideoCleanupSafe]_vars
    /\ []ClosedAtMostOnce

\* A cleanup before the batch, a batch that failed and cleaned up, and a
\* cleanup after it.
C20_Witness ==
    /\ pc = "raised"
    /\ CleanupCount = 2
    /\ events[1].op = "cleanup"
    /\ events[Len(events)].op = "cleanup"
    /\ ~temp_exists
    /\ exc.type = "FileNotFoundError"

====
